---- MODULE Spec2Model ----
(***************************************************************************)
(* The transactionSubmission slice of the wallet popup                     *)
(* (src/extension/src/popup/ducks/transactionSubmission.ts): the slice     *)
(* state, its case reducers, the async thunks that feed it, and the        *)
(* requests those thunks keep in flight.                                   *)
(*                                                                         *)
(* JavaScript values are modelled as follows.  `undefined` and `null` are  *)
(* the records Undefined and Null, so that a slot holding either an object *)
(* or nothing compares with both.  Opaque objects (a Horizon transaction   *)
(* response, a response body, a balance list) are small records.  An       *)
(* object used as a mapping (AssetIcons) is a function from its keys.      *)
(***************************************************************************)
EXTENDS Integers, Sequences, FiniteSets, TLC

VARIABLES
    state,      \* the slice state (InitialState, lines 174-182)
    inflight,   \* thunk requests dispatched as pending and not yet settled
    nextId,     \* requestId of the next thunk to be dispatched
    nEdits,     \* number of draft mutators dispatched so far
    last,       \* history: the action dispatched last (type, requestId,
                \* payload) and, for a settled request, what its collaborator did
    prev,       \* history: the slice state before `last` was reduced
    latest,     \* history: requestId of the sign/submit started last, 0 if none
    quiet,      \* history: the sign/submit started last and the status it was
                \* started in, as long as no other sign/submit has settled and
                \* no reset was dispatched since; NoQuiet otherwise
    lookup      \* history: requestId of the best-path lookup started last
                \* (`latest`) and of the lookup whose record the draft holds
                \* (`held`), 0 if none

vars == <<state, inflight, nextId, nEdits, last, prev, latest, quiet, lookup>>

---------------------------------------------------------------------------
(* Bounds of the model *)

MaxSteps == 2    \* thunks and draft mutators dispatched in one behaviour

---------------------------------------------------------------------------
(* Values *)

Undefined == [undefined |-> TRUE]
Null == [null |-> TRUE]

Falsy(v) == v = Undefined \/ v = Null

IDLE == "IDLE"
PENDING == "PENDING"
SUCCESS == "SUCCESS"
ERROR == "ERROR"

ActionStatus == {IDLE, PENDING, SUCCESS, ERROR}

initialState ==
    [ status |-> IDLE,
      response |-> Null,
      error |-> Undefined,
      transactionData |->
        [ amount |-> "",
          asset |-> "native",
          destination |-> "",
          federationAddress |-> "",
          transactionFee |-> "0.00001",
          memo |-> "",
          destinationAsset |-> "",
          destinationAmount |-> "",
          path |-> <<>>,
          allowedSlippage |-> "1" ],
      accountBalances |-> [balances |-> Null, isFunded |-> FALSE],
      destinationBalances |-> [balances |-> Null, isFunded |-> FALSE],
      assetIcons |-> <<>> ]

(* Payloads the form screens hand to the draft mutators. *)
Payloads == {"", "USD:GAXYZ", "42.50"}

(* What the collaborators return. *)
SignedTransactions == {[signedTransaction |-> "signedXDR"]}

TransactionResponses == {[hash |-> "tx1", successful |-> TRUE],
                         [hash |-> "tx2", successful |-> TRUE]}

AccountBalances == {[balances |-> [native |-> "10"], isFunded |-> TRUE],
                    [balances |-> [native |-> "0"], isFunded |-> FALSE]}

IconPayloads == {Undefined, <<>>, [A |-> "urlA"], [B |-> "urlB"]}

UsdHop == [asset_code |-> "USD", asset_issuer |-> "GAXYZ"]
EurHop == [asset_code |-> "EUR", asset_issuer |-> "GBABC"]
XlmHop == [asset_code |-> "XLM", asset_issuer |-> ""]

PaymentPathRecords ==
    { [path |-> <<>>, destination_amount |-> "7"],
      [path |-> <<UsdHop>>, destination_amount |-> "42.50"],
      [path |-> <<EurHop, XlmHop, UsdHop>>, destination_amount |-> "42.50"] }

(* The `records` array of the path-finding answer: empty, one record, or a *)
(* best record followed by a worse one.                                    *)
WorseRecord == [path |-> <<XlmHop>>, destination_amount |-> "1"]

RecordLists ==
    {<<>>} \cup {<<r>> : r \in PaymentPathRecords}
           \cup {<<r, WorseRecord>> : r \in PaymentPathRecords}

(* What the collaborators throw: an Error with a message, with or without  *)
(* an attached HTTP response, or a bare value with no message.             *)
Thrown ==
    { [self |-> "Error: insufficient fee", message |-> "insufficient fee",
       response |-> [data |-> [code |-> 400]]],
      [self |-> "Error: insufficient fee", message |-> "insufficient fee",
       response |-> Undefined],
      [self |-> "user declined", message |-> "", response |-> Undefined] }

Returned(v) == [ok |-> TRUE, value |-> v]
Threw(e) == [ok |-> FALSE, thrown |-> e]

---------------------------------------------------------------------------
(* helpers/stellar *)

getCanonicalFromAsset(assetCode, assetIssuer) ==
    IF assetIssuer = "" THEN "native" ELSE assetCode \o ":" \o assetIssuer

---------------------------------------------------------------------------
(* Thunks: the action a request settles with, given what its collaborator  *)
(* did.                                                                    *)

\* e.message || e
MessageOrSelf(e) == IF e.message # "" THEN e.message ELSE e.self

\* e.response?.data
ResponseData(e) == IF Falsy(e.response) THEN Undefined ELSE e.response.data

\* Variant: the rejection carries the response body, as the submission thunk's does.
signFreighterTransactionWithResponse(outcome) ==
    IF outcome.ok
    THEN [type |-> "signFreighterTransaction/fulfilled", payload |-> outcome.value]
    ELSE [type |-> "signFreighterTransaction/rejected",
          payload |-> [errorMessage |-> MessageOrSelf(outcome.thrown),
                       response |-> ResponseData(outcome.thrown)]]

signFreighterTransaction(outcome) ==
    IF outcome.ok
    THEN [type |-> "signFreighterTransaction/fulfilled", payload |-> outcome.value]
    ELSE [type |-> "signFreighterTransaction/rejected",
          payload |-> [errorMessage |-> MessageOrSelf(outcome.thrown)]]

\* Variant: the rejection carries the message only, as the signing thunk's does.
submitFreighterTransactionMessageOnly(outcome) ==
    IF outcome.ok
    THEN [type |-> "submitFreighterTransaction/fulfilled", payload |-> outcome.value]
    ELSE [type |-> "submitFreighterTransaction/rejected",
          payload |-> [errorMessage |-> MessageOrSelf(outcome.thrown)]]

submitFreighterTransaction(outcome) ==
    IF outcome.ok
    THEN [type |-> "submitFreighterTransaction/fulfilled", payload |-> outcome.value]
    ELSE [type |-> "submitFreighterTransaction/rejected",
          payload |-> [errorMessage |-> MessageOrSelf(outcome.thrown),
                       response |-> ResponseData(outcome.thrown)]]

getAccountBalances(outcome) ==
    IF outcome.ok
    THEN [type |-> "getAccountBalances/fulfilled", payload |-> outcome.value]
    ELSE [type |-> "getAccountBalances/rejected",
          payload |-> [errorMessage |-> outcome.thrown]]

getDestinationBalances(outcome) ==
    IF outcome.ok
    THEN [type |-> "getDestinationBalances/fulfilled", payload |-> outcome.value]
    ELSE [type |-> "getDestinationBalances/rejected",
          payload |-> [errorMessage |-> outcome.thrown]]

getAssetIcons(outcome) ==
    IF outcome.ok
    THEN [type |-> "auth/getAssetIcons/fulfilled", payload |-> outcome.value]
    ELSE [type |-> "auth/getAssetIcons/rejected", payload |-> Undefined]

getBestPath(outcome) ==
    IF outcome.ok
    THEN [type |-> "getBestPath/fulfilled",
          payload |-> IF Len(outcome.value) = 0 THEN Undefined ELSE outcome.value[1]]
    ELSE [type |-> "getBestPath/rejected",
          payload |-> [errorMessage |-> MessageOrSelf(outcome.thrown),
                       response |-> ResponseData(outcome.thrown)]]

---------------------------------------------------------------------------
(* Case reducers of the slice.  Each takes the state and the action and    *)
(* gives the next state.                                                   *)

\* Variant: a reset that rebuilds the workflow fields and keeps the draft.
resetSubmissionKeepsDraft(s, action) ==
    [initialState EXCEPT !.transactionData = s.transactionData]

resetSubmission(s, action) == initialState

saveDestination(s, action) ==
    [s EXCEPT !.transactionData.destination = action.payload]

saveFederationAddress(s, action) ==
    [s EXCEPT !.transactionData.federationAddress = action.payload]

saveAmount(s, action) ==
    [s EXCEPT !.transactionData.amount = action.payload]

saveAsset(s, action) ==
    [s EXCEPT !.transactionData.asset = action.payload]

saveTransactionFee(s, action) ==
    [s EXCEPT !.transactionData.transactionFee = action.payload]

saveMemo(s, action) ==
    [s EXCEPT !.transactionData.memo = action.payload]

\* Variant: choosing another destination asset drops the computed fields.
saveDestinationAssetClearsPath(s, action) ==
    [s EXCEPT !.transactionData.destinationAsset = action.payload,
              !.transactionData.path = <<>>,
              !.transactionData.destinationAmount = ""]

saveDestinationAsset(s, action) ==
    [s EXCEPT !.transactionData.destinationAsset = action.payload]

saveAllowedSlippage(s, action) ==
    [s EXCEPT !.transactionData.allowedSlippage = action.payload]

\* Variant: starting a submission forgets the recorded error and result.
submitPendingClearsOutcome(s, action) ==
    [s EXCEPT !.status = PENDING, !.error = Undefined, !.response = Null]

submitPending(s, action) == [s EXCEPT !.status = PENDING]

\* Variant: the signing thunk's start is not reflected in status.
signPendingKeepsStatus(s, action) == s

signPending(s, action) == [s EXCEPT !.status = PENDING]

\* Variant: a failed submission sets the status and records no error.
submitRejectedStatusOnly(s, action) == [s EXCEPT !.status = ERROR]

submitRejected(s, action) ==
    [s EXCEPT !.status = ERROR, !.error = action.payload]

signRejected(s, action) ==
    [s EXCEPT !.status = ERROR, !.error = action.payload]

\* Variant: a failed lookup is recorded like a failed signature.
getBestPathRejectedRecordsError(s, action) ==
    [s EXCEPT !.status = ERROR,
              !.error = action.payload,
              !.transactionData.path = initialState.transactionData.path,
              !.transactionData.destinationAmount =
                  initialState.transactionData.destinationAmount]

\* Variant: a failed lookup clears the path and keeps the quoted amount.
getBestPathRejectedKeepsAmount(s, action) ==
    [s EXCEPT !.transactionData.path = initialState.transactionData.path]

getBestPathRejected(s, action) ==
    [s EXCEPT !.transactionData.path = initialState.transactionData.path,
              !.transactionData.destinationAmount =
                  initialState.transactionData.destinationAmount]

\* Variant: the result is stored and the status is left as it is.
\* Variant: a successful submission also puts the draft back to its defaults.
submitFulfilledDiscardsDraft(s, action) ==
    [s EXCEPT !.status = SUCCESS, !.response = action.payload,
              !.transactionData = initialState.transactionData]

submitFulfilledKeepsStatus(s, action) == [s EXCEPT !.response = action.payload]

\* Variant: the status is set and the result is not stored.
submitFulfilledDropsResponse(s, action) == [s EXCEPT !.status = SUCCESS]

submitFulfilled(s, action) ==
    [s EXCEPT !.status = SUCCESS, !.response = action.payload]

\* Variant: a slot already filled keeps the answer that arrived first.
getAccountBalancesFulfilledKeepsFirst(s, action) ==
    IF s.accountBalances.balances # Null
    THEN s
    ELSE [s EXCEPT !.accountBalances = action.payload]

getAccountBalancesFulfilled(s, action) ==
    [s EXCEPT !.accountBalances = action.payload]

\* Variant: the destination case copied from the account case, slot and all.
getDestinationBalancesFulfilledWritesAccount(s, action) ==
    [s EXCEPT !.accountBalances = action.payload]

getDestinationBalancesFulfilled(s, action) ==
    [s EXCEPT !.destinationBalances = action.payload]

\* Variant: { ...state.assetIcons, ...assetIcons }, the icons merged in.
getAssetIconsFulfilledMerges(s, action) ==
    LET assetIcons == IF Falsy(action.payload) THEN <<>> ELSE action.payload
        known == s.assetIcons
    IN  [s EXCEPT !.assetIcons =
            [k \in DOMAIN known \cup DOMAIN assetIcons |->
                IF k \in DOMAIN assetIcons THEN assetIcons[k] ELSE known[k]]]

getAssetIconsFulfilled(s, action) ==
    LET assetIcons == IF Falsy(action.payload) THEN <<>> ELSE action.payload
    IN  [s EXCEPT !.assetIcons = assetIcons]

\* action.payload.path.forEach((p) => path.push(...)), from hop i on
RECURSIVE PushCanonical(_, _, _)
PushCanonical(path, hops, i) ==
    IF i > Len(hops) THEN path
    ELSE PushCanonical(
             Append(path,
                    getCanonicalFromAsset(hops[i].asset_code, hops[i].asset_issuer)),
             hops, i + 1)

\* Variant: the hops are pushed onto the path already in the draft.
getBestPathFulfilledAppends(s, action) ==
    IF Falsy(action.payload)
    THEN [s EXCEPT !.transactionData.path = <<>>,
                   !.transactionData.destinationAmount = ""]
    ELSE LET path == PushCanonical(s.transactionData.path, action.payload.path, 1)
         IN  [s EXCEPT !.transactionData.path = path,
                       !.transactionData.destinationAmount =
                           action.payload.destination_amount]

getBestPathFulfilled(s, action) ==
    IF Falsy(action.payload)
    THEN [s EXCEPT !.transactionData.path = <<>>,
                   !.transactionData.destinationAmount = ""]
    ELSE LET path == PushCanonical(<<>>, action.payload.path, 1)
         IN  [s EXCEPT !.transactionData.path = path,
                       !.transactionData.destinationAmount =
                           action.payload.destination_amount]

\* Variant: a failed account-balance fetch empties its slot and a failed icon
\* fetch forgets the icons.
\* Variant: starting a best-path lookup clears what an earlier lookup stored.
noCaseButLookupStart(s, action) ==
    IF action.type = "getBestPath/pending"
    THEN [s EXCEPT !.transactionData.path = <<>>,
                   !.transactionData.destinationAmount = ""]
    ELSE s

noCaseButFailedFetch(s, action) ==
    IF action.type = "getAccountBalances/rejected"
    THEN [s EXCEPT !.accountBalances = initialState.accountBalances]
    ELSE IF action.type = "auth/getAssetIcons/rejected"
    THEN [s EXCEPT !.assetIcons = initialState.assetIcons]
    ELSE s

\* Variant: a case for the signing thunk's fulfilled action, like the
\* submission thunk's.
noCaseButSignFulfilled(s, action) ==
    IF action.type = "signFreighterTransaction/fulfilled"
    THEN [s EXCEPT !.status = SUCCESS]
    ELSE s

\* An action no case is registered for leaves the state as it is.
noCase(s, action) == s

(* The slice reducer: createSlice routes an action to the case reducer of  *)
(* its type, and returns the state as it is for any other action.          *)
reducer(s, action) ==
    CASE action.type = "transactionSubmission/resetSubmission" ->
             resetSubmission(s, action)
      [] action.type = "transactionSubmission/saveDestination" ->
             saveDestination(s, action)
      [] action.type = "transactionSubmission/saveFederationAddress" ->
             saveFederationAddress(s, action)
      [] action.type = "transactionSubmission/saveAmount" ->
             saveAmount(s, action)
      [] action.type = "transactionSubmission/saveAsset" ->
             saveAsset(s, action)
      [] action.type = "transactionSubmission/saveTransactionFee" ->
             saveTransactionFee(s, action)
      [] action.type = "transactionSubmission/saveMemo" ->
             saveMemo(s, action)
      [] action.type = "transactionSubmission/saveDestinationAsset" ->
             saveDestinationAsset(s, action)
      [] action.type = "transactionSubmission/saveAllowedSlippage" ->
             saveAllowedSlippage(s, action)
      [] action.type = "submitFreighterTransaction/pending" ->
             submitPending(s, action)
      [] action.type = "signFreighterTransaction/pending" ->
             signPending(s, action)
      [] action.type = "submitFreighterTransaction/rejected" ->
             submitRejected(s, action)
      [] action.type = "signFreighterTransaction/rejected" ->
             signRejected(s, action)
      [] action.type = "getBestPath/rejected" ->
             getBestPathRejected(s, action)
      [] action.type = "submitFreighterTransaction/fulfilled" ->
             submitFulfilled(s, action)
      [] action.type = "getAccountBalances/fulfilled" ->
             getAccountBalancesFulfilled(s, action)
      [] action.type = "getDestinationBalances/fulfilled" ->
             getDestinationBalancesFulfilled(s, action)
      [] action.type = "auth/getAssetIcons/fulfilled" ->
             getAssetIconsFulfilled(s, action)
      [] action.type = "getBestPath/fulfilled" ->
             getBestPathFulfilled(s, action)
      [] OTHER -> noCase(s, action)

\* state.transactionSubmission.transactionData.destinationAsset !== ""
isPathPaymentSelector(s) == s.transactionData.destinationAsset # ""

---------------------------------------------------------------------------
(* Dispatching *)

SignSubmit == {"signFreighterTransaction", "submitFreighterTransaction"}

Request(id, op) == [id |-> id, op |-> op]

\* Some dispatch of a thunk or a draft mutator is still within the bound.
Budget == (nextId - 1) + nEdits < MaxSteps

NoQuiet == [id |-> 0, from |-> IDLE]

\* The store reduces `action`; requestId is 0 for an action of no thunk.
Dispatch(action, requestId, outcome) ==
    /\ state' = reducer(state, action)
    /\ prev' = state
    /\ last' = [type |-> action.type, id |-> requestId,
                payload |-> action.payload, outcome |-> outcome]

Init ==
    /\ state = initialState
    /\ inflight = {}
    /\ nextId = 1
    /\ nEdits = 0
    /\ last = [type |-> "@@INIT", id |-> 0, payload |-> Undefined,
               outcome |-> Undefined]
    /\ prev = initialState
    /\ latest = 0
    /\ quiet = NoQuiet
    /\ lookup = [latest |-> 0, held |-> 0]

\* Variant: a reset that also drops the requests in flight.
ResetSubmissionCancels ==
    /\ Dispatch([type |-> "transactionSubmission/resetSubmission",
                 payload |-> Undefined], 0, Undefined)
    /\ quiet' = NoQuiet
    /\ lookup' = [lookup EXCEPT !.held = 0]
    /\ inflight' = {}
    /\ UNCHANGED <<nextId, nEdits, latest>>

ResetSubmission ==
    /\ Dispatch([type |-> "transactionSubmission/resetSubmission",
                 payload |-> Undefined], 0, Undefined)
    /\ quiet' = NoQuiet
    /\ lookup' = [lookup EXCEPT !.held = 0]
    /\ UNCHANGED <<inflight, nextId, nEdits, latest>>

\* A draft mutator `name` dispatched with payload p.
Save(name, p) ==
    /\ Dispatch([type |-> "transactionSubmission/" \o name, payload |-> p],
                0, Undefined)
    /\ nEdits' = nEdits + 1
    /\ UNCHANGED <<inflight, nextId, latest, quiet, lookup>>

SaveDestination ==
    /\ Budget
    /\ \E p \in Payloads : Save("saveDestination", p)

SaveFederationAddress ==
    /\ Budget
    /\ \E p \in Payloads : Save("saveFederationAddress", p)

SaveAmount ==
    /\ Budget
    /\ \E p \in Payloads : Save("saveAmount", p)

SaveAsset ==
    /\ Budget
    /\ \E p \in Payloads : Save("saveAsset", p)

SaveTransactionFee ==
    /\ Budget
    /\ \E p \in Payloads : Save("saveTransactionFee", p)

SaveMemo ==
    /\ Budget
    /\ \E p \in Payloads : Save("saveMemo", p)

SaveDestinationAsset ==
    /\ Budget
    /\ \E p \in Payloads : Save("saveDestinationAsset", p)

SaveAllowedSlippage ==
    /\ Budget
    /\ \E p \in Payloads : Save("saveAllowedSlippage", p)


\* createAsyncThunk dispatches `<typePrefix>/pending` under a fresh requestId
\* before it calls the collaborator.
Start(id, op, typePrefix) ==
    /\ Budget
    /\ Dispatch([type |-> typePrefix \o "/pending", payload |-> Undefined],
                id, Undefined)
    /\ inflight' = inflight \cup {Request(id, op)}
    /\ nextId' = id + 1
    /\ latest' = IF op \in SignSubmit THEN id ELSE latest
    /\ quiet' = IF op \in SignSubmit
                THEN [id |-> id, from |-> state.status]
                ELSE quiet
    /\ lookup' = IF op = "getBestPath" THEN [lookup EXCEPT !.latest = id] ELSE lookup
    /\ UNCHANGED nEdits

\* The collaborator answers request r and the thunk dispatches what it settled with.
Settle(r, action, outcome) ==
    /\ Dispatch(action, r.id, outcome)
    /\ inflight' = inflight \ {r}
    /\ quiet' = IF r.op \in SignSubmit /\ r.id # quiet.id THEN NoQuiet ELSE quiet
    /\ lookup' = IF r.op # "getBestPath" THEN lookup
                 ELSE IF action.type = "getBestPath/fulfilled" /\ ~Falsy(action.payload)
                      THEN [lookup EXCEPT !.held = r.id]
                      ELSE [lookup EXCEPT !.held = 0]
    /\ UNCHANGED <<nextId, nEdits, latest>>

Outcomes(values) == {Returned(v) : v \in values} \cup {Threw(e) : e \in Thrown}

StartSign ==
    \E id \in {nextId} : Start(id, "signFreighterTransaction", "signFreighterTransaction")

StartSubmit ==
    \E id \in {nextId} : Start(id, "submitFreighterTransaction", "submitFreighterTransaction")

StartGetAccountBalances ==
    \E id \in {nextId} : Start(id, "getAccountBalances", "getAccountBalances")

StartGetDestinationBalances ==
    \E id \in {nextId} : Start(id, "getDestinationBalances", "getDestinationBalances")

StartGetAssetIcons ==
    \E id \in {nextId} : Start(id, "getAssetIcons", "auth/getAssetIcons")

StartGetBestPath ==
    \E id \in {nextId} : Start(id, "getBestPath", "getBestPath")

SettleSign ==
    \E r \in inflight, o \in Outcomes(SignedTransactions) :
        /\ r.op = "signFreighterTransaction"
        /\ Settle(r, signFreighterTransaction(o), o)

SettleSubmit ==
    \E r \in inflight, o \in Outcomes(TransactionResponses) :
        /\ r.op = "submitFreighterTransaction"
        /\ Settle(r, submitFreighterTransaction(o), o)

SettleGetAccountBalances ==
    \E r \in inflight, o \in Outcomes(AccountBalances) :
        /\ r.op = "getAccountBalances"
        /\ Settle(r, getAccountBalances(o), o)

SettleGetDestinationBalances ==
    \E r \in inflight, o \in Outcomes(AccountBalances) :
        /\ r.op = "getDestinationBalances"
        /\ Settle(r, getDestinationBalances(o), o)

SettleGetAssetIcons ==
    \E r \in inflight, o \in Outcomes(IconPayloads) :
        /\ r.op = "getAssetIcons"
        /\ Settle(r, getAssetIcons(o), o)

SettleGetBestPath ==
    \E r \in inflight, o \in Outcomes(RecordLists) :
        /\ r.op = "getBestPath"
        /\ Settle(r, getBestPath(o), o)

Next ==
    \/ ResetSubmission
    \/ SaveDestination
    \/ SaveFederationAddress
    \/ SaveAmount
    \/ SaveAsset
    \/ SaveTransactionFee
    \/ SaveMemo
    \/ SaveDestinationAsset
    \/ SaveAllowedSlippage
    \/ StartSign
    \/ StartSubmit
    \/ StartGetAccountBalances
    \/ StartGetDestinationBalances
    \/ StartGetAssetIcons
    \/ StartGetBestPath
    \/ SettleSign
    \/ SettleSubmit
    \/ SettleGetAccountBalances
    \/ SettleGetDestinationBalances
    \/ SettleGetAssetIcons
    \/ SettleGetBestPath

Spec == Init /\ [][Next]_vars

---------------------------------------------------------------------------
(* Properties.  They are stated over the history variables: `last` is the  *)
(* action reduced last and `prev` the slice state it was reduced in.       *)

ResetType == "transactionSubmission/resetSubmission"
SignPendingType == "signFreighterTransaction/pending"
SignFulfilledType == "signFreighterTransaction/fulfilled"
SignRejectedType == "signFreighterTransaction/rejected"
SubmitPendingType == "submitFreighterTransaction/pending"
SubmitFulfilledType == "submitFreighterTransaction/fulfilled"
SubmitRejectedType == "submitFreighterTransaction/rejected"
BestPathFulfilledType == "getBestPath/fulfilled"
BestPathRejectedType == "getBestPath/rejected"

SignSubmitTypes ==
    {SignPendingType, SignFulfilledType, SignRejectedType,
     SubmitPendingType, SubmitFulfilledType, SubmitRejectedType}

\* The field each draft mutator is documented to write.
MutatorField ==
    [ saveDestination |-> "destination",
      saveFederationAddress |-> "federationAddress",
      saveAmount |-> "amount",
      saveAsset |-> "asset",
      saveTransactionFee |-> "transactionFee",
      saveMemo |-> "memo",
      saveDestinationAsset |-> "destinationAsset",
      saveAllowedSlippage |-> "allowedSlippage" ]

MutatorTypes == {"transactionSubmission/" \o m : m \in DOMAIN MutatorField}

FieldOfType(type) ==
    LET m == CHOOSE n \in DOMAIN MutatorField : "transactionSubmission/" \o n = type
    IN  MutatorField[m]

\* Reading a property of a JavaScript object: undefined when it has none.
Prop(obj, key) == IF key \in DOMAIN obj THEN obj[key] ELSE Undefined

\* The defaults as the data model documents them.
DocumentedDraft ==
    [ amount |-> "", asset |-> "native", destination |-> "",
      federationAddress |-> "", transactionFee |-> "0.00001", memo |-> "",
      destinationAsset |-> "", destinationAmount |-> "", path |-> <<>>,
      allowedSlippage |-> "1" ]

EmptySlot == [balances |-> Null, isFunded |-> FALSE]

\* C1: whatever the state reset is reduced in, the state after it is exactly
\* the documented default: status Idle, no response, no error, the draft at
\* its defaults, both balance slots empty and unfunded, no icons.
C1_ResetYieldsDefault ==
    last.type = ResetType =>
        /\ state.status = IDLE
        /\ state.response = Null
        /\ state.error = Undefined
        /\ state.transactionData = DocumentedDraft
        /\ state.accountBalances = EmptySlot
        /\ state.destinationBalances = EmptySlot
        /\ state.assetIcons = <<>>
        /\ DOMAIN state = {"status", "response", "error", "transactionData",
                           "accountBalances", "destinationBalances", "assetIcons"}

\* A reset reduced in an Error state with a recorded error and an edited draft.
C1_Witness ==
    /\ last.type = ResetType
    /\ prev.status = ERROR
    /\ prev.error # Undefined
    /\ prev.transactionData # DocumentedDraft
    /\ state = initialState

\* The submit request the claim C2 is about: started in Idle, the sign/submit
\* started last, and no other sign/submit settled nor reset dispatched since.
QuietSubmitFromIdle(id) == id # 0 /\ quiet.id = id /\ quiet.from = IDLE

\* C2: a submit started in Idle and left alone makes status Pending with no
\* error when it starts, keeps them so while in flight, and when the service
\* accepts it makes status Success, response the returned record, error absent.
C2_SubmitSuccess ==
    /\ (last.type = SubmitPendingType /\ prev.status = IDLE) =>
           /\ state.status = PENDING
           /\ state.error = Undefined
    /\ \A r \in inflight :
           (r.op = "submitFreighterTransaction" /\ QuietSubmitFromIdle(r.id)) =>
               /\ state.status = PENDING
               /\ state.error = Undefined
    /\ (last.type = SubmitFulfilledType /\ QuietSubmitFromIdle(last.id)) =>
           /\ prev.status = PENDING
           /\ state.status = SUCCESS
           /\ state.response = last.outcome.value
           /\ state.error = Undefined

C2_Witness ==
    /\ last.type = SubmitFulfilledType
    /\ QuietSubmitFromIdle(last.id)
    /\ prev.status = PENDING
    /\ state.status = SUCCESS
    /\ state.response \in TransactionResponses

\* C3: a rejected submit makes status Error and error the failure message with
\* the raw response body when one was attached and no response otherwise; the
\* recorded response, the draft and every other field stay as they were.
C3_SubmitFailure ==
    last.type = SubmitRejectedType =>
        LET e == last.outcome.thrown
            message == IF e.message = "" THEN e.self ELSE e.message
            body == IF e.response = Undefined THEN Undefined ELSE e.response.data
        IN  /\ state.status = ERROR
            /\ state.error.errorMessage = message
            /\ Prop(state.error, "response") = body
            /\ state = [prev EXCEPT !.status = ERROR, !.error = state.error]

\* A failure with a response body attached, after an earlier success.
C3_Witness ==
    /\ last.type = SubmitRejectedType
    /\ state.error.response = [code |-> 400]
    /\ prev.response # Null
    /\ state.response = prev.response

\* C4: a successful sign changes no field; a sign left alone after its start
\* still shows Pending after its success; and status becomes Success only
\* by a submit success.
C4_SignSuccessChangesNothing ==
    /\ last.type = SignFulfilledType => state = prev
    /\ (last.type = SignFulfilledType /\ last.id # 0 /\ quiet.id = last.id) =>
           state.status = PENDING
    /\ (state.status = SUCCESS /\ prev.status # SUCCESS) =>
           last.type = SubmitFulfilledType

C4_Witness ==
    /\ last.type = SignFulfilledType
    /\ quiet.id = last.id
    /\ state.status = PENDING
    /\ state = prev

\* C5: a rejected sign makes status Error and error the failure message with
\* no response part, also when the thrown value carried a response; no other
\* field changes.
C5_SignFailure ==
    last.type = SignRejectedType =>
        LET e == last.outcome.thrown
            message == IF e.message = "" THEN e.self ELSE e.message
        IN  /\ state.status = ERROR
            /\ state.error.errorMessage = message
            /\ Prop(state.error, "response") = Undefined
            /\ state = [prev EXCEPT !.status = ERROR, !.error = state.error]

C5_Witness ==
    /\ last.type = SignRejectedType
    /\ last.outcome.thrown.response # Undefined
    /\ state.status = ERROR
    /\ prev.status = PENDING
    /\ Prop(state.error, "response") = Undefined

SignSubmitSettledTypes ==
    {SignFulfilledType, SignRejectedType, SubmitFulfilledType, SubmitRejectedType}

\* C6 as claimed: the settling of a sign/submit started before the sign/submit
\* started last does not change status.
C6_StaleSettleKeepsStatus ==
    (last.type \in SignSubmitSettledTypes /\ last.id < latest) =>
        state.status = prev.status

\* C6 as the reducers have it: status is written by the sign/submit action
\* reduced last, whichever request it belongs to.  A start makes it Pending,
\* a submit success Success, a sign or submit failure Error, also for a
\* request started before the sign/submit started last; a sign success
\* leaves it as it was.
C6_StatusFollowsLastAction ==
    /\ last.type \in {SignPendingType, SubmitPendingType} => state.status = PENDING
    /\ last.type = SubmitFulfilledType => state.status = SUCCESS
    /\ last.type \in {SignRejectedType, SubmitRejectedType} => state.status = ERROR
    /\ last.type = SignFulfilledType => state.status = prev.status

\* An earlier submit succeeds while the sign started after it is in flight.
C6_Witness ==
    /\ last.type = SubmitFulfilledType
    /\ last.id < latest
    /\ \E r \in inflight : r.id = latest /\ r.op = "signFreighterTransaction"
    /\ prev.status = PENDING
    /\ state.status = SUCCESS

FetchTypes ==
    {prefix \o suffix :
        prefix \in {"getAccountBalances", "getDestinationBalances",
                    "auth/getAssetIcons", "getBestPath"},
        suffix \in {"/pending", "/fulfilled", "/rejected"}}

\* C7: no action of a balance fetch, a best-path lookup or an icon fetch, and
\* no draft mutator, changes status, response or error; whenever one of the
\* three changes, the action was a sign/submit action or a reset.
C7_OnlySignSubmitAndResetWriteStatus ==
    /\ last.type \in FetchTypes \cup MutatorTypes =>
           /\ state.status = prev.status
           /\ state.response = prev.response
           /\ state.error = prev.error
    /\ (\/ state.status # prev.status
        \/ state.response # prev.response
        \/ state.error # prev.error) =>
           last.type \in SignSubmitTypes \cup {ResetType}

\* A best-path lookup fails while an error of a submit is recorded.
C7_Witness ==
    /\ last.type = BestPathRejectedType
    /\ prev.status = ERROR
    /\ prev.error # Undefined
    /\ state.status = ERROR
    /\ state.error = prev.error

\* C8: a draft mutator writes its payload to its own field of transactionData
\* and leaves every other field of the draft and of the state as it was.
C8_MutatorIsolation ==
    last.type \in MutatorTypes =>
        state = [prev EXCEPT !.transactionData[FieldOfType(last.type)] = last.payload]

\* The destination asset is changed while a computed path is in the draft.
C8_Witness ==
    /\ last.type = "transactionSubmission/saveDestinationAsset"
    /\ last.payload # prev.transactionData.destinationAsset
    /\ state.transactionData.destinationAsset = last.payload
    /\ prev.transactionData.path # <<>>
    /\ state.transactionData.path = prev.transactionData.path
    /\ state.transactionData.destinationAmount # ""

EmptyLookup == last.type = BestPathFulfilledType /\ last.payload = Undefined

PathCleared(s) ==
    [s EXCEPT !.transactionData.path = <<>>,
              !.transactionData.destinationAmount = ""]

\* C9: reduced in the same state, a lookup that found no record and a lookup
\* that failed give the same state: the one they were reduced in with path
\* empty and destinationAmount "", status and error included.
C9_EmptyAndFailedLookupAgree ==
    /\ \A e \in Thrown :
           getBestPathFulfilled(state, getBestPath(Returned(<<>>)))
               = getBestPathRejected(state, getBestPath(Threw(e)))
    /\ (EmptyLookup \/ last.type = BestPathRejectedType) => state = PathCleared(prev)

\* A lookup fails while the draft holds the path of an earlier lookup.
C9_Witness ==
    /\ last.type = BestPathRejectedType
    /\ prev.transactionData.path # <<>>
    /\ prev.transactionData.destinationAmount # ""
    /\ state.transactionData.path = <<>>
    /\ state.transactionData.destinationAmount = ""

\* C10: a lookup that found a record makes path the canonical identifiers of
\* the hops of the first record, one per hop in their order, in place of the
\* path held before, and destinationAmount the record's destination amount;
\* nothing else changes.
C10_BestPathStored ==
    (last.type = BestPathFulfilledType /\ last.outcome.value # <<>>) =>
        LET record == last.outcome.value[1]
            hops == record.path
            canonical == [i \in 1..Len(hops) |->
                             getCanonicalFromAsset(hops[i].asset_code,
                                                   hops[i].asset_issuer)]
        IN  state = [prev EXCEPT
                        !.transactionData.path = canonical,
                        !.transactionData.destinationAmount =
                            record.destination_amount]

\* A three-hop record replaces the path of an earlier lookup.
C10_Witness ==
    /\ last.type = BestPathFulfilledType
    /\ last.outcome.value # <<>>
    /\ prev.transactionData.path # <<>>
    /\ Len(state.transactionData.path) = 3
    /\ state.transactionData.path[3] = "USD:GAXYZ"
    /\ state.transactionData.destinationAmount = "42.50"

AccountBalancesTypes ==
    {"getAccountBalances/pending", "getAccountBalances/fulfilled",
     "getAccountBalances/rejected"}

DestinationBalancesTypes ==
    {"getDestinationBalances/pending", "getDestinationBalances/fulfilled",
     "getDestinationBalances/rejected"}

\* C11: no action of an account-balance fetch changes destinationBalances and
\* no action of a destination-balance fetch changes accountBalances; a fetch
\* that succeeds leaves its own result in its own slot, whichever of the two
\* kinds settled first.
C11_BalanceSlotsDisjoint ==
    /\ last.type \in AccountBalancesTypes =>
           state.destinationBalances = prev.destinationBalances
    /\ last.type \in DestinationBalancesTypes =>
           state.accountBalances = prev.accountBalances
    /\ last.type = "getAccountBalances/fulfilled" =>
           state.accountBalances = last.outcome.value
    /\ last.type = "getDestinationBalances/fulfilled" =>
           state.destinationBalances = last.outcome.value

\* A destination fetch started first settles after the account fetch started
\* while it was in flight: each slot holds its own fetch's result.
C11_Witness ==
    /\ last.type = "getDestinationBalances/fulfilled"
    /\ last.id = 1
    /\ prev.accountBalances \in AccountBalances
    /\ prev.destinationBalances = EmptySlot
    /\ state.accountBalances = prev.accountBalances
    /\ state.destinationBalances = last.outcome.value
    /\ state.destinationBalances # state.accountBalances

FailedFetchTypes ==
    {"getAccountBalances/rejected", "getDestinationBalances/rejected",
     "auth/getAssetIcons/rejected"}

\* C12: a failed balance fetch of either slot and a failed icon fetch leave
\* the whole state as it was: the slot and the icons keep their values and
\* nothing is written to error or status.
C12_FailedFetchChangesNothing ==
    last.type \in FailedFetchTypes => state = prev

\* An account-balance fetch fails after an earlier one filled the slot.
C12_Witness ==
    /\ last.type = "getAccountBalances/rejected"
    /\ prev.accountBalances \in AccountBalances
    /\ state.accountBalances = prev.accountBalances
    /\ state.error = Undefined
    /\ state.status = IDLE

\* C13: a successful icon fetch makes assetIcons exactly the returned mapping,
\* the empty mapping when nothing was returned: every key known before and
\* absent from the answer is gone; no other field changes.
C13_IconsReplaced ==
    last.type = "auth/getAssetIcons/fulfilled" =>
        LET returned == last.outcome.value
            expected == IF returned = Undefined \/ returned = Null
                        THEN <<>> ELSE returned
        IN  /\ DOMAIN state.assetIcons = DOMAIN expected
            /\ \A k \in DOMAIN expected : state.assetIcons[k] = expected[k]
            /\ state = [prev EXCEPT !.assetIcons = state.assetIcons]

\* With {A: "urlA"} known, the service returns {B: "urlB"}.
C13_Witness ==
    /\ last.type = "auth/getAssetIcons/fulfilled"
    /\ prev.assetIcons = [A |-> "urlA"]
    /\ last.outcome.value = [B |-> "urlB"]
    /\ state.assetIcons = [B |-> "urlB"]
    /\ "A" \notin DOMAIN state.assetIcons

\* C14: a balance fetch that succeeds leaves its result in its slot whatever
\* the slot held and whenever the fetch was issued, so of two fetches of one
\* slot in flight together the one that settles last decides the slot.
C14_LastSettledWins ==
    /\ last.type = "getAccountBalances/fulfilled" =>
           /\ state.accountBalances = last.payload
           /\ last.payload = last.outcome.value
    /\ last.type = "getDestinationBalances/fulfilled" =>
           /\ state.destinationBalances = last.payload
           /\ last.payload = last.outcome.value

\* The account fetch issued first settles after the one issued second did,
\* with another result.
C14_Witness ==
    /\ last.type = "getAccountBalances/fulfilled"
    /\ last.id = 1
    /\ nextId = 3
    /\ inflight = {}
    /\ prev.accountBalances \in AccountBalances
    /\ prev.accountBalances # last.outcome.value
    /\ state.accountBalances = last.outcome.value

\* What a request settling right after a reset leaves: the defaults with the
\* fields its case writes.
AfterReset(type, value) ==
    CASE type = SubmitFulfilledType ->
             [initialState EXCEPT !.status = SUCCESS, !.response = value]
      [] type \in {SubmitRejectedType, SignRejectedType} ->
             [initialState EXCEPT !.status = ERROR, !.error = value]
      [] type = "getAccountBalances/fulfilled" ->
             [initialState EXCEPT !.accountBalances = value]
      [] type = "getDestinationBalances/fulfilled" ->
             [initialState EXCEPT !.destinationBalances = value]
      [] type = "auth/getAssetIcons/fulfilled" ->
             [initialState EXCEPT !.assetIcons = IF Falsy(value) THEN <<>> ELSE value]
      [] type = BestPathFulfilledType ->
             IF Falsy(value) THEN initialState
             ELSE [initialState EXCEPT
                      !.transactionData.destinationAmount = value.destination_amount,
                      !.transactionData.path =
                          [i \in 1..Len(value.path) |->
                              getCanonicalFromAsset(value.path[i].asset_code,
                                                    value.path[i].asset_issuer)]]
      [] OTHER -> initialState

\* C15: a reset takes no request out of flight, and a request that settles
\* in the reset state is reduced as in any other: a submit success leaves
\* Success and the response on the defaults, a balance fetch fills its slot.
C15_ResetCancelsNothing ==
    /\ [][last'.type = ResetType => inflight' = inflight]_vars
    /\ []((last.id # 0 /\ last.id \notin {r.id : r \in inflight}
                       /\ prev = initialState) =>
              state = AfterReset(last.type, last.payload))

\* A submit started before a reset succeeds after it.
C15_Witness ==
    /\ last.type = SubmitFulfilledType
    /\ prev = initialState
    /\ state.status = SUCCESS
    /\ state.response = last.outcome.value
    /\ state.transactionData = DocumentedDraft

StartTypes == {SignPendingType, SubmitPendingType}
FailureTypes == {SignRejectedType, SubmitRejectedType}

\* C16 as claimed: status leaves Idle, Success or Error only by a sign/submit
\* start (to Pending) or a reset (to Idle), becomes Success only from Pending
\* by a submit success, and becomes Error only from Pending by a sign or
\* submit failure.
C16_OnlyDocumentedEdges ==
    /\ (prev.status \in {IDLE, SUCCESS, ERROR} /\ state.status # prev.status) =>
           \/ last.type \in StartTypes /\ state.status = PENDING
           \/ last.type = ResetType /\ state.status = IDLE
    /\ (state.status = SUCCESS /\ prev.status # SUCCESS) =>
           prev.status = PENDING /\ last.type = SubmitFulfilledType
    /\ (state.status = ERROR /\ prev.status # ERROR) =>
           prev.status = PENDING /\ last.type \in FailureTypes

\* C16 as the reducers have it: status changes only by a sign/submit start
\* (to Pending), a reset (to Idle), a submit success (to Success) or a sign
\* or submit failure (to Error), each from whatever status is current; the
\* success or failure finds status Pending when its request is the
\* sign/submit started last and no other sign/submit settled and no reset
\* was dispatched since it started.
C16_StatusEdges ==
    /\ state.status # prev.status =>
           \/ last.type \in StartTypes /\ state.status = PENDING
           \/ last.type = ResetType /\ state.status = IDLE
           \/ last.type = SubmitFulfilledType /\ state.status = SUCCESS
           \/ last.type \in FailureTypes /\ state.status = ERROR
    /\ (last.type \in SignSubmitSettledTypes /\ quiet.id = last.id) =>
           prev.status = PENDING

\* A submit started before a reset succeeds after it: Idle to Success.
C16_Witness ==
    /\ last.type = SubmitFulfilledType
    /\ prev.status = IDLE
    /\ state.status = SUCCESS

---------------------------------------------------------------------------
(* C17: path and destinationAmount when a lookup fails or is superseded *)

BestPathPendingType == "getBestPath/pending"

Computed(s) ==
    <<s.transactionData.path, s.transactionData.destinationAmount>>

NoComputed == <<<<>>, "">>

\* C17 as claimed: after a failed lookup path and destinationAmount are at
\* their defaults, and the draft never holds the record of a lookup other
\* than the one started last.
C17_ClearedWhenFailedOrSuperseded ==
    /\ last.type = BestPathRejectedType => Computed(state) = NoComputed
    /\ lookup.held # 0 => lookup.held = lookup.latest

\* C17 as the reducers have it: path and destinationAmount are written
\* together, and only when a lookup settles or on reset.  A failed lookup and
\* a lookup without a record put both at their defaults, a lookup with a
\* record stores both from it, whichever lookup it is; starting a lookup
\* changes nothing, so the draft keeps what the lookup settled last has left
\* until another lookup settles.
C17_ComputedWrittenOnSettle ==
    /\ last.type = BestPathRejectedType => Computed(state) = NoComputed
    /\ EmptyLookup => Computed(state) = NoComputed
    /\ last.type = BestPathPendingType => state = prev
    /\ Computed(state) # Computed(prev) =>
           last.type \in {BestPathFulfilledType, BestPathRejectedType, ResetType}
    /\ lookup.held = 0 => Computed(state) = NoComputed
    /\ lookup.held # 0 => state.transactionData.destinationAmount # ""

\* A second lookup has been started and the draft still holds the first
\* lookup's hops and amount.
C17_Witness ==
    /\ last.type = BestPathPendingType
    /\ lookup.held # 0
    /\ lookup.latest # lookup.held
    /\ state.transactionData.path # <<>>
    /\ state.transactionData.destinationAmount # ""

---------------------------------------------------------------------------
(* C18: the draft after a successful submission *)

\* C18 as claimed: once a submit has resolved successfully, transactionData
\* is at its documented defaults.
C18_DraftDiscardedAfterSuccess ==
    last.type = SubmitFulfilledType => state.transactionData = DocumentedDraft

\* C18 as the reducers have it: a successful submit leaves transactionData
\* as it was; the draft goes back to its documented defaults by reset.
C18_DraftKeptAfterSuccess ==
    /\ last.type = SubmitFulfilledType =>
           /\ state.status = SUCCESS
           /\ state.transactionData = prev.transactionData
    /\ last.type = ResetType => state.transactionData = DocumentedDraft

\* A submit has resolved successfully and the draft still holds what the
\* user entered.
C18_Witness ==
    /\ last.type = SubmitFulfilledType
    /\ state.status = SUCCESS
    /\ state.transactionData # DocumentedDraft
    /\ state.transactionData = prev.transactionData

---------------------------------------------------------------------------
(* C19: starting a signature or a submission *)

\* C19: a sign start and a submit start can be dispatched in every status;
\* each sets status to Pending and leaves every other field as it was, the
\* error and the response an earlier operation recorded included.
C19_StartSetsPendingOnly ==
    /\ last.type \in StartTypes =>
           /\ state = [prev EXCEPT !.status = PENDING]
           /\ state.error = prev.error
           /\ state.response = prev.response
    /\ Budget => ENABLED StartSign /\ ENABLED StartSubmit

\* A submission is started again after one failed: status is Pending and
\* the error of the failure is still recorded.
C19_Witness ==
    /\ last.type = SubmitPendingType
    /\ prev.status = ERROR
    /\ prev.error # Undefined
    /\ state.status = PENDING
    /\ state.error = prev.error

---------------------------------------------------------------------------
(* C20: status against error and response *)

\* C20 as claimed: status Error implies an error is recorded, status Success
\* implies a response is recorded, and no error is recorded while status is
\* Success.
C20_StatusAgreesWithOutcome ==
    /\ state.status = ERROR => state.error # Undefined
    /\ state.status = SUCCESS => state.response # Null
    /\ state.status = SUCCESS => state.error = Undefined

\* C20 as the reducers have it: status Error implies an error is recorded
\* and status Success implies a response is recorded; a successful submit
\* leaves the error field as it was, so an error recorded by an earlier
\* failure stays while status is Success, until a reset.
C20_StatusImpliesOutcome ==
    /\ state.status = ERROR => state.error # Undefined
    /\ state.status = SUCCESS => state.response # Null
    /\ last.type = SubmitFulfilledType => state.error = prev.error
    /\ (state.error = Undefined /\ prev.error # Undefined) =>
           last.type = ResetType

\* One submit has failed and another has succeeded after it: status is
\* Success, the response is recorded and so is the earlier error.
C20_Witness ==
    /\ state.status = SUCCESS
    /\ state.response # Null
    /\ state.error # Undefined

====
